---- MODULE Spec2Model ----
(***************************************************************************)
(* A model of the ef-coach-scale skill: the habit streak tracker           *)
(* (streak-tracker.py) and the focus-session gap finder (focus-session.py).*)
(*                                                                         *)
(* Dates are day numbers 1..MaxDay; the NULL of the store is 0.  A habit   *)
(* row is [name, streak_count, last_completed, goal_frequency, active];    *)
(* the description column carries no logic and is left out.                *)
(***************************************************************************)
EXTENDS Integers, Sequences, FiniteSets, TLC

\* ------------------------------------------------------------------ bounds
MaxDay == 4        \* the days the clock runs through
MaxHabitId == 2    \* the ids callers pass: 1..MaxHabitId
MaxLog == 3        \* rows of habit_log
NProcs == 2        \* invocations of complete_habit that may overlap
TxnMaxDay == 2     \* the days the clock runs through while they overlap
TxnMaxLog == 3     \* rows of habit_log while they overlap
MaxT == 4          \* calendar instants, in minutes: 0..MaxT
MaxLength == 1     \* the longest calendar event, in minutes
MaxEvents == 3     \* items the calendar provider returns
MaxNow == 1        \* the instants at which a scan may start: 0..MaxNow
MaxMinMinutes == 2 \* min_minutes: 0..MaxMinMinutes
Lookahead == 3     \* hours_ahead, in the minutes of the model
TicksPerMinute == 2    \* the instants told apart within a minute
MaxGapMinutes == 245   \* the longest opportunity proposed for, in minutes
MaxOverlapMinutes == 2 \* the longest opportunity that ends before it starts
ProviderMaxEvents == 2 \* items the provider returns in runs that may fail
RemindMaxDay == 9      \* the days the clock runs through between reminders
RemindMaxLog == 2      \* rows of habit_log between reminders
CrudMaxId == 3         \* the habit ids given out and passed while habits are deleted
CrudMaxLog == 1        \* rows of habit_log while habits are deleted
MaxSessions == 2       \* rows of focus_sessions
FocusMaxClock == 2     \* the ticks the clock of the sessions runs through
StmtMaxLog == 2        \* rows of habit_log while operations run by statement
BusyMaxT == 3          \* calendar instants of busy intervals that may nest: 0..BusyMaxT
BusyMaxEvents == 3     \* busy intervals in such a calendar
QueryMaxDay == 3       \* the days the clock runs through between queries
QueryMaxLog == 2       \* rows of habit_log between queries

\* ------------------------------------------------------------- the store
NULL == 0

Days == 1..MaxDay
HabitIds == 1..MaxHabitId
Names == {"exercise"}
Cadences == {"daily", "weekly", "monthly"}
None == "None"

VARIABLES
    today,      \* date.today(), as a day number
    habits,     \* table habits: id -> row
    habit_log,  \* table habit_log: sequence of rows, in insertion order
    last,       \* the last call: operation, argument, result, the store before it
    hist,       \* per habit: days with an accepted completion, and whether
                \* update_habit has acted on the row
    proc,       \* per invocation of complete_habit: its position and locals
    lock,       \* the invocation holding the store's write lock, or 0
    tx,         \* the uncommitted tables of the invocation holding the lock
    calendar,   \* what the calendar provider returns: a sequence of items
    now,        \* datetime.now(), in minutes
    scan,       \* the last find_focus_opportunities call: what it read and returned
    provider,   \* how the run of the calendar provider ends
    proposals,  \* what the last scan_and_propose call returned
    opportunity, \* the opportunity handed to propose_focus_session
    proposal,   \* what propose_focus_session returned for it
    reminders,  \* the last get_habit_reminders call: the date it read, its result
    sessions,   \* table focus_sessions: id -> row
    pending,    \* the row start_focus_session has inserted and not yet committed
    clock,      \* datetime.now() as the session operations read it, in ticks
    flast,      \* the last session call: operation, session id, result
    conn,       \* self.conn of the operation run by statement: the tables as
                \* its connection holds them, its uncommitted writes included
    frame,      \* the operation run by statement: its call, its position,
                \* the tables it found, its result
    answer      \* the last query: the operation and what it returned

vars == <<today, habits, habit_log, last, hist, proc, lock, tx, calendar, now, scan,
          provider, proposals, opportunity, proposal, reminders,
          sessions, pending, clock, flast, conn, frame, answer>>
habitVars == <<today, habits, habit_log, last, hist>>
txnVars == <<proc, lock, tx>>
gapVars == <<calendar, now, scan, provider, proposals>>
proposeVars == <<opportunity, proposal>>
remindVars == <<reminders>>
focusVars == <<sessions, pending, clock, flast>>
stmtVars == <<conn, frame>>
queryVars == <<answer>>
outsideHabits == <<txnVars, gapVars, proposeVars, remindVars, focusVars, stmtVars, queryVars>>
outsideTxn == <<gapVars, proposeVars, remindVars, focusVars, stmtVars, queryVars>>
outsideGap == <<habitVars, txnVars, proposeVars, remindVars, focusVars, stmtVars, queryVars>>

Procs == 1..NProcs

\* The columns a fresh row gets from the schema's defaults.
NewHabitRow(name, goal_frequency) ==
    [name |-> name, streak_count |-> 0, last_completed |-> NULL,
     goal_frequency |-> goal_frequency, active |-> 1]

NewLogRow(habit_id, d) == [habit_id |-> habit_id, timestamp |-> d]

NoHistory == [accepted |-> {}, updated |-> FALSE]

NoRow == [name |-> None, streak_count |-> 0, last_completed |-> NULL,
          goal_frequency |-> None, active |-> 0]

\* What is kept of a call: the operation, its argument, its result, the date it
\* read, and the store it found (the row addressed, the length of the log).
Call(op, habit_id, ok) ==
    [op |-> op, habit_id |-> habit_id, ok |-> ok, today |-> today,
     row |-> IF habit_id \in DOMAIN habits THEN habits[habit_id] ELSE NoRow,
     logged |-> Len(habit_log)]

NoCall == [op |-> "init", habit_id |-> 0, ok |-> TRUE, today |-> 1,
           row |-> NoRow, logged |-> 0]

\* An invocation that is not running; ret is what its last run returned.
Idle(ret) ==
    [pc |-> "idle", habit_id |-> 0, goal_frequency |-> None,
     last_completed |-> NULL, today |-> 0, ret |-> ret]

NoTx == [habits |-> <<>>, habit_log |-> <<>>]

TxnInit ==
    /\ proc = [p \in Procs |-> Idle("-")]
    /\ lock = 0
    /\ tx = NoTx

NoScan == [done |-> FALSE, min_minutes |-> 0, now |-> 0,
           events |-> <<>>, opportunities |-> <<>>]

\* No calendar, no scan.
GapInit ==
    /\ calendar = <<>>
    /\ now = 0
    /\ scan = NoScan
    /\ provider = "ok"
    /\ proposals = <<>>

NoOpportunity == [start |-> 0, end |-> 0, duration |-> 0,
                  after_event |-> None, before_event |-> None]

NoProposal == [start |-> [iso |-> 0], end |-> [iso |-> 0], duration_minutes |-> 0,
               suggested_timer |-> [minutes |-> 0, label |-> None],
               task_name |-> None, energy |-> NULL,
               context |-> [after |-> None, before |-> None]]

\* Nothing to propose for.
ProposeInit ==
    /\ opportunity = NoOpportunity
    /\ proposal = NoProposal

NoReminders == [today |-> 0, list |-> <<>>]

RemindInit == reminders = NoReminders

\* The NULL of a column that holds the text of an instant.
NullText == [iso |-> NULL]

\* A row of focus_sessions as start_focus_session inserts it; task_name and
\* energy_before carry no logic and are left out.
NewSessionRow(start_time, planned_duration) ==
    [start_time |-> start_time, planned_duration |-> planned_duration,
     end_time |-> NullText, actual_duration |-> NULL, outcome |-> None,
     energy_after |-> NULL, notes |-> None]

NoSession == NewSessionRow(NullText, 0)

NoFocusCall == [op |-> "init", session_id |-> 0, ok |-> TRUE]

\* No session yet.
FocusInit ==
    /\ sessions = <<>>
    /\ pending = NoSession
    /\ clock = 1
    /\ flast = NoFocusCall

\* No connection: self.conn is None, or a connection that was closed.
NoConn == [open |-> FALSE, habits |-> <<>>, habit_log |-> <<>>, sessions |-> <<>>]

NoArgs == [op |-> "init", habit_id |-> 0, name |-> None, active |-> None,
           goal_frequency |-> None, session_id |-> 0, outcome |-> None]

\* No operation has been run by statement.
NoFrame == [pc |-> "idle", call |-> NoArgs, ok |-> TRUE,
            before |-> [habits |-> <<>>, habit_log |-> <<>>, sessions |-> <<>>]]

StmtInit ==
    /\ conn = NoConn
    /\ frame = NoFrame

\* No query has been made.
NoAnswer == [op |-> "init", value |-> <<>>]

QueryInit == answer = NoAnswer

Init ==
    /\ today = 1
    /\ habits = <<>>
    /\ habit_log = <<>>
    /\ last = NoCall
    /\ hist = <<>>
    /\ TxnInit
    /\ GapInit
    /\ ProposeInit
    /\ RemindInit
    /\ FocusInit
    /\ StmtInit
    /\ QueryInit

\* The clock: midnight passes.
Tick ==
    /\ today < MaxDay
    /\ today' = today + 1
    /\ UNCHANGED <<habits, habit_log, last, hist>>

\* ---------------------------------------------------------------- add_habit
NameTaken_Never(name) == FALSE

\* The store refuses a second row of the same name.
NameTaken(name) == \E i \in DOMAIN habits : habits[i].name = name

\* The largest of a set of ids.
Max(S) == CHOOSE x \in S : \A y \in S : y <= x

\* cursor.lastrowid of an INSERT: the id after the largest in the table.
NextId(table) == IF DOMAIN table = {} THEN 1 ELSE Max(DOMAIN table) + 1

\* The table with the row of id put in, and with it taken out.
Put(table, id, row) ==
    [i \in DOMAIN table \cup {id} |-> IF i = id THEN row ELSE table[i]]

Drop(table, id) == [i \in DOMAIN table \ {id} |-> table[i]]

add_habit(name, goal_frequency) ==
    /\ IF NameTaken(name)
       THEN \* sqlite3.IntegrityError: return 0
            /\ last' = Call("add_habit", 0, FALSE)
            /\ UNCHANGED <<habits, hist>>
       ELSE /\ habits' = Put(habits, NextId(habits), NewHabitRow(name, goal_frequency))
            /\ hist' = Put(hist, NextId(habits), NoHistory)
            /\ last' = Call("add_habit", NextId(habits), TRUE)
    /\ UNCHANGED <<today, habit_log>>

\* ----------------------------------------------------------- complete_habit
AlreadyCompletedToday_Never(row, d) == FALSE

AlreadyCompletedToday(row, d) ==
    row.goal_frequency = "daily" /\ row.last_completed = d

\* UpdateKind with one branch changed: each is a slip the properties below
\* must tell from UpdateKind.
UpdateKind_ContinueResets(goal_frequency, last_completed, d) ==
    IF goal_frequency = "daily"
    THEN (IF last_completed = NULL THEN "first" ELSE "reset")
    ELSE "touch"

UpdateKind_ResetCounts(goal_frequency, last_completed, d) ==
    IF goal_frequency = "daily"
    THEN (IF last_completed = NULL THEN "first" ELSE "continue")
    ELSE "touch"

UpdateKind_FirstUncounted(goal_frequency, last_completed, d) ==
    IF goal_frequency = "daily"
    THEN (IF last_completed = NULL THEN "touch"
          ELSE IF last_completed = d - 1 THEN "continue" ELSE "reset")
    ELSE "touch"

UpdateKind_GapOfTwo(goal_frequency, last_completed, d) ==
    IF goal_frequency = "daily"
    THEN (IF last_completed = NULL THEN "first"
          ELSE IF last_completed >= d - 2 THEN "continue" ELSE "reset")
    ELSE "touch"

UpdateKind_WeeklyCounts(goal_frequency, last_completed, d) ==
    IF goal_frequency = "daily"
    THEN (IF last_completed = NULL THEN "first"
          ELSE IF last_completed = d - 1 THEN "continue" ELSE "reset")
    ELSE "continue"

\* The UPDATE complete_habit issues, decided on the columns it SELECTed:
\*   "continue"  SET streak_count = streak_count + 1, last_completed = today
\*   "reset"     SET streak_count = 1, last_completed = today
\*   "first"     SET streak_count = 1, last_completed = today
\*   "touch"     SET last_completed = today
\*   "none"      no UPDATE: a daily habit with last_completed after today, or
\*               a goal_frequency that is none of the three
UpdateKind(goal_frequency, last_completed, d) ==
    IF goal_frequency = "daily"
    THEN IF last_completed # NULL
         THEN IF last_completed = d - 1 THEN "continue"
              ELSE IF last_completed < d - 1 THEN "reset"
              ELSE "none"
         ELSE "first"
    ELSE IF goal_frequency = "weekly" THEN "touch"
    ELSE IF goal_frequency = "monthly" THEN "touch"
    ELSE "none"

\* The UPDATE as the store applies it to the row it holds.
ApplyUpdate(kind, row, d) ==
    CASE kind = "continue" ->
            [row EXCEPT !.streak_count = @ + 1, !.last_completed = d]
      [] kind \in {"reset", "first"} ->
            [row EXCEPT !.streak_count = 1, !.last_completed = d]
      [] kind = "touch" -> [row EXCEPT !.last_completed = d]
      [] OTHER -> row

complete_habit(habit_id) ==
    /\ Len(habit_log) < MaxLog
    /\ IF habit_id \notin DOMAIN habits
       THEN \* "Habit not found"
            /\ last' = Call("complete_habit", habit_id, FALSE)
            /\ UNCHANGED <<habits, habit_log, hist>>
       ELSE IF AlreadyCompletedToday(habits[habit_id], today)
       THEN \* "Habit already completed today"
            /\ last' = Call("complete_habit", habit_id, FALSE)
            /\ UNCHANGED <<habits, habit_log, hist>>
       ELSE /\ habit_log' = Append(habit_log, NewLogRow(habit_id, today))
            /\ habits' = [habits EXCEPT ![habit_id] =
                    ApplyUpdate(UpdateKind(@.goal_frequency, @.last_completed, today),
                                @, today)]
            /\ hist' = [hist EXCEPT ![habit_id].accepted = @ \cup {today}]
            /\ last' = Call("complete_habit", habit_id, TRUE)
    /\ UNCHANGED today

\* ------------------------------------------------------------- update_habit
\* The SET list built from the arguments that are not None.
SetColumns(row, name, active, goal_frequency) ==
    [row EXCEPT
        !.name = IF name # None THEN name ELSE @,
        !.active = IF active # None THEN (IF active = "True" THEN 1 ELSE 0) ELSE @,
        !.goal_frequency = IF goal_frequency # None THEN goal_frequency ELSE @]

NameTakenByOther(habit_id, name) ==
    \E i \in DOMAIN habits : i # habit_id /\ habits[i].name = name

update_habit(habit_id, name, active, goal_frequency) ==
    /\ IF name = None /\ active = None /\ goal_frequency = None
       THEN \* "No updates specified"
            /\ last' = Call("update_habit", habit_id, FALSE)
            /\ UNCHANGED <<habits, hist>>
       ELSE IF habit_id \notin DOMAIN habits
       THEN \* the UPDATE matches no row; the call still returns True
            /\ last' = Call("update_habit", habit_id, TRUE)
            /\ UNCHANGED <<habits, hist>>
       ELSE IF name # None /\ NameTakenByOther(habit_id, name)
       THEN \* sqlite3.IntegrityError is a sqlite3.Error: return False
            /\ last' = Call("update_habit", habit_id, FALSE)
            /\ UNCHANGED <<habits, hist>>
       ELSE /\ habits' = [habits EXCEPT
                            ![habit_id] = SetColumns(@, name, active, goal_frequency)]
            /\ hist' = [hist EXCEPT ![habit_id].updated = TRUE]
            /\ last' = Call("update_habit", habit_id, TRUE)
    /\ UNCHANGED <<today, habit_log>>

\* The calls made: no column, or one column at a time.
UpdateArgs ==
    {[name |-> None, active |-> None, goal_frequency |-> None]}
    \cup {[name |-> n, active |-> None, goal_frequency |-> None] : n \in Names}
    \cup {[name |-> None, active |-> a, goal_frequency |-> None] : a \in {"True", "False"}}
    \cup {[name |-> None, active |-> None, goal_frequency |-> f] : f \in Cadences}

Next ==
    \/ Tick /\ UNCHANGED outsideHabits
    \/ \E n \in Names, f \in Cadences :
          add_habit(n, f) /\ UNCHANGED outsideHabits
    \/ \E h \in HabitIds : complete_habit(h) /\ UNCHANGED outsideHabits
    \/ \E h \in HabitIds, a \in UpdateArgs :
          /\ update_habit(h, a.name, a.active, a.goal_frequency)
          /\ UNCHANGED outsideHabits

\* Calls made one after the other, each running to its end.
Spec == Init /\ [][Next]_vars

\* ------------------------------------------- complete_habit, by statement
\* complete_habit as the statements it sends to the store, for invocations
\* whose statements interleave.  habits and habit_log are the committed
\* tables.  The first write of an invocation takes the store's write lock and
\* opens its transaction; tx holds that transaction's tables until COMMIT
\* publishes them.  A transaction that is not committed is rolled back when
\* its connection is dropped.

\* connect, SELECT goal_frequency, last_completed, and the two early returns.
TxnSelect(p, habit_id) ==
    /\ proc[p].pc = "idle"
    /\ Len(habit_log) < TxnMaxLog
    /\ IF habit_id \notin DOMAIN habits
       THEN proc' = [proc EXCEPT ![p] = Idle("False")]
       ELSE IF AlreadyCompletedToday(habits[habit_id], today)
       THEN proc' = [proc EXCEPT ![p] = Idle("False")]
       ELSE proc' = [proc EXCEPT ![p] =
                [pc |-> "insert", habit_id |-> habit_id,
                 goal_frequency |-> habits[habit_id].goal_frequency,
                 last_completed |-> habits[habit_id].last_completed,
                 today |-> today, ret |-> "-"]]
    /\ UNCHANGED <<habitVars, lock, tx>>

TxnInsert_Autocommit(p) ==
    /\ proc[p].pc = "insert"
    /\ lock = 0
    /\ lock' = p
    /\ habit_log' = Append(habit_log, NewLogRow(proc[p].habit_id, proc[p].today))
    /\ tx' = [habits |-> habits, habit_log |-> habit_log']
    /\ proc' = [proc EXCEPT ![p].pc = "update"]
    /\ UNCHANGED <<today, habits, last, hist>>

\* INSERT INTO habit_log: the first write, which begins the transaction.
TxnInsert(p) ==
    /\ proc[p].pc = "insert"
    /\ lock = 0
    /\ lock' = p
    /\ tx' = [habits |-> habits,
              habit_log |-> Append(habit_log,
                                   NewLogRow(proc[p].habit_id, proc[p].today))]
    /\ proc' = [proc EXCEPT ![p].pc = "update"]
    /\ UNCHANGED habitVars

\* The INSERT of an invocation that finds the store locked past the busy
\* timeout raises sqlite3.OperationalError: return False.
TxnBusy(p) ==
    /\ proc[p].pc = "insert"
    /\ lock # 0
    /\ proc' = [proc EXCEPT ![p] = Idle("False")]
    /\ UNCHANGED <<habitVars, lock, tx>>

\* The UPDATE chosen on the SELECTed columns, applied to the row as it is now.
TxnUpdate(p) ==
    /\ proc[p].pc = "update"
    /\ lock = p
    /\ tx' = [tx EXCEPT !.habits[proc[p].habit_id] =
                ApplyUpdate(UpdateKind(proc[p].goal_frequency,
                                       proc[p].last_completed, proc[p].today),
                            @, proc[p].today)]
    /\ proc' = [proc EXCEPT ![p].pc = "commit"]
    /\ UNCHANGED <<habitVars, lock>>

\* conn.commit(), close, return True.
TxnCommit(p) ==
    /\ proc[p].pc = "commit"
    /\ lock = p
    /\ habits' = tx.habits
    /\ habit_log' = tx.habit_log
    /\ lock' = 0
    /\ tx' = NoTx
    /\ proc' = [proc EXCEPT ![p] = Idle("True")]
    /\ UNCHANGED <<today, last, hist>>

\* A sqlite3.Error raised by the INSERT, the UPDATE or the COMMIT: return
\* False; the open transaction, if any, is rolled back.
TxnError(p) ==
    /\ proc[p].pc \in {"insert", "update", "commit"}
    /\ proc' = [proc EXCEPT ![p] = Idle("False")]
    /\ IF lock = p
       THEN lock' = 0 /\ tx' = NoTx
       ELSE UNCHANGED <<lock, tx>>
    /\ UNCHANGED habitVars

\* One habit, added and never completed.
InitTxn ==
    /\ today = 1
    /\ \E f \in Cadences : habits = <<NewHabitRow("exercise", f)>>
    /\ habit_log = <<>>
    /\ last = NoCall
    /\ hist = <<NoHistory>>
    /\ TxnInit
    /\ GapInit
    /\ ProposeInit
    /\ RemindInit
    /\ FocusInit
    /\ StmtInit
    /\ QueryInit

\* Midnight passes, whatever the invocations are doing.
TxnTick ==
    /\ today < TxnMaxDay
    /\ today' = today + 1
    /\ UNCHANGED <<habits, habit_log, last, hist, txnVars>>

NextTxn ==
    \/ TxnTick /\ UNCHANGED outsideTxn
    \/ \E p \in Procs, h \in HabitIds : TxnSelect(p, h) /\ UNCHANGED outsideTxn
    \/ \E p \in Procs : TxnInsert(p) /\ UNCHANGED outsideTxn
    \/ \E p \in Procs : TxnBusy(p) /\ UNCHANGED outsideTxn
    \/ \E p \in Procs : TxnUpdate(p) /\ UNCHANGED outsideTxn
    \/ \E p \in Procs : TxnCommit(p) /\ UNCHANGED outsideTxn
    \/ \E p \in Procs : TxnError(p) /\ UNCHANGED outsideTxn

SpecTxn == InitTxn /\ [][NextTxn]_vars

\* ------------------------------------------------- find_focus_opportunities
Instants == 0..MaxT
MinMinutes == 0..MaxMinMinutes

\* The items a provider may return, in any order: start <= end, and the
\* summary of the i-th item is the numeral i.
Slots ==
    {sl \in [start : Instants, end : Instants] :
        sl.start <= sl.end /\ sl.end - sl.start <= MaxLength}

Calendars == UNION {[1..n -> Slots] : n \in 0..MaxEvents}

Items(c) ==
    [i \in DOMAIN c |->
        [start |-> c[i].start, end |-> c[i].end, summary |-> ToString(i)]]

\* sorted(filtered_events, key = start): a stable sort.
InsertByStart(sorted, e) ==
    LET k == Cardinality({i \in DOMAIN sorted : sorted[i].start <= e.start})
    IN  SubSeq(sorted, 1, k) \o <<e>> \o SubSeq(sorted, k + 1, Len(sorted))

RECURSIVE SortByStart(_)
SortByStart(es) ==
    IF es = <<>> THEN <<>>
    ELSE InsertByStart(SortByStart(SubSeq(es, 1, Len(es) - 1)), es[Len(es)])

\* The events that start within hours_ahead of t and end after t, by start.
InWindow(e, t, hours_ahead) == e.start <= t + hours_ahead /\ e.end > t

filtered_events(c, t, hours_ahead) ==
    LET Keep(e) == InWindow(e, t, hours_ahead)
    IN  SortByStart(SelectSeq(Items(c), Keep))

\* How a run of the provider ends: "ok", with a non-zero exit status, by the
\* timeout of 30 seconds, or with output that is not JSON.  c is what it
\* printed, or would have printed.
ProviderRuns == {"ok", "exit", "timeout", "unparsable"}

get_calendar_events_IgnoresExit(run, c, t, hours_ahead) ==
    IF run \in {"timeout", "unparsable"} THEN <<>>
    ELSE filtered_events(c, t, hours_ahead)

get_calendar_events(run, c, t, hours_ahead) ==
    IF run = "exit" THEN <<>>                         \* returncode != 0
    ELSE IF run \in {"timeout", "unparsable"} THEN <<>> \* except Exception
    ELSE filtered_events(c, t, hours_ahead)

Opportunity(start, end, after, before) ==
    [start |-> start, end |-> end, duration |-> end - start,
     after_event |-> after, before_event |-> before]

LeadingGap_Strict(events, t, min_minutes) ==
    IF events # <<>> /\ events[1].start > t /\ events[1].start - t > min_minutes
    THEN <<Opportunity(t, events[1].start, None, events[1].summary)>>
    ELSE <<>>

\* The opportunity from now to the first event.
LeadingGap(events, t, min_minutes) ==
    IF events # <<>>
    THEN IF events[1].start > t
         THEN IF events[1].start - t >= min_minutes
              THEN <<Opportunity(t, events[1].start, None, events[1].summary)>>
              ELSE <<>>
         ELSE <<>>
    ELSE <<>>

\* The loop over range(len(events) - 1), from index i on.
RECURSIVE GapsFrom(_, _, _)
GapsFrom(events, i, min_minutes) ==
    IF i > Len(events) - 1 THEN <<>>
    ELSE LET gap_start == events[i].end
             gap_end == events[i + 1].start
             found == IF gap_end - gap_start >= min_minutes
                      THEN <<Opportunity(gap_start, gap_end, events[i].summary,
                                         events[i + 1].summary)>>
                      ELSE <<>>
         IN  found \o GapsFrom(events, i + 1, min_minutes)

InteriorGaps_Trailing(events, min_minutes) ==
    GapsFrom(events, 1, min_minutes)
    \o (IF events # <<>> /\ MaxT - events[Len(events)].end >= min_minutes
        THEN <<Opportunity(events[Len(events)].end, MaxT,
                           events[Len(events)].summary, None)>>
        ELSE <<>>)

\* The opportunities between events.
InteriorGaps(events, min_minutes) == GapsFrom(events, 1, min_minutes)

\* find_focus_opportunities(min_minutes).  Its two readings of the clock, one
\* in get_calendar_events and one after it, are the same minute.
find_focus_opportunities(min_minutes) ==
    /\ ~scan.done
    /\ LET events == get_calendar_events(provider, calendar, now, Lookahead)
       IN  scan' = [done |-> TRUE, min_minutes |-> min_minutes, now |-> now,
                    events |-> events,
                    opportunities |-> LeadingGap(events, now, min_minutes)
                                      \o InteriorGaps(events, min_minutes)]
    /\ UNCHANGED <<calendar, now, provider>>

\* Any calendar at any instant, not yet scanned.
InitGap ==
    /\ today = 1
    /\ habits = <<>>
    /\ habit_log = <<>>
    /\ last = NoCall
    /\ hist = <<>>
    /\ TxnInit
    /\ calendar \in Calendars
    /\ now \in 0..MaxNow
    /\ scan = NoScan
    /\ provider = "ok"
    /\ proposals = <<>>
    /\ ProposeInit
    /\ RemindInit
    /\ FocusInit
    /\ StmtInit
    /\ QueryInit

NextGap ==
    \E m \in MinMinutes :
        find_focus_opportunities(m) /\ UNCHANGED <<proposals, outsideGap>>

SpecGap == InitGap /\ [][NextGap]_vars

\* Calendars of busy intervals: each with start < end, of any length, so that
\* they may overlap and nest.
BusySlots == {sl \in [start : 0..BusyMaxT, end : 0..BusyMaxT] : sl.start < sl.end}

BusyCalendars == UNION {[1..n -> BusySlots] : n \in 0..BusyMaxEvents}

\* Any calendar of busy intervals at any instant, not yet scanned.
InitBusy ==
    /\ today = 1
    /\ habits = <<>>
    /\ habit_log = <<>>
    /\ last = NoCall
    /\ hist = <<>>
    /\ TxnInit
    /\ calendar \in BusyCalendars
    /\ now \in 0..MaxNow
    /\ scan = NoScan
    /\ provider = "ok"
    /\ proposals = <<>>
    /\ ProposeInit
    /\ RemindInit
    /\ FocusInit
    /\ StmtInit
    /\ QueryInit

SpecBusy == InitBusy /\ [][NextGap]_vars

\* ---------------------------------------------------- propose_focus_session
\* Here a datetime is a count of ticks, TicksPerMinute to the minute, and the
\* float opportunity["duration"], a number of minutes, is kept as its count of
\* ticks.

\* datetime.isoformat() and datetime.fromisoformat(): the text of an instant,
\* and the instant of a text.
isoformat(t) == [iso |-> t]
fromisoformat(text) == text.iso

int_minutes_Rounded(ticks) ==
    IF ticks >= 0 THEN (2 * ticks + TicksPerMinute) \div (2 * TicksPerMinute)
    ELSE -((2 * (-ticks) + TicksPerMinute) \div (2 * TicksPerMinute))

\* int(x) of a float x of minutes: the fraction is dropped, toward zero.
int_minutes(ticks) ==
    IF ticks >= 0 THEN ticks \div TicksPerMinute
    ELSE -((-ticks) \div TicksPerMinute)

Timer(minutes, label) == [minutes |-> minutes, label |-> label]

SuggestedTimer_Exclusive(duration_minutes) ==
    IF duration_minutes > 240 THEN Timer(120, "deep work block")
    ELSE IF duration_minutes >= 180 THEN Timer(90, "3 pomodoros + long break")
    ELSE IF duration_minutes >= 120 THEN Timer(90, "focus block")
    ELSE Timer(duration_minutes - 15, "focus session")

\* suggested_timer: the text is kept as its number of minutes and its label.
SuggestedTimer(duration_minutes) ==
    IF duration_minutes >= 240 THEN Timer(120, "deep work block")
    ELSE IF duration_minutes >= 180 THEN Timer(90, "3 pomodoros + long break")
    ELSE IF duration_minutes >= 120 THEN Timer(90, "focus block")
    ELSE Timer(duration_minutes - 15, "focus session")

\* The proposal dictionary propose_focus_session returns.
Proposal(opp, task_name, energy) ==
    LET duration_minutes == int_minutes(opp.duration)
    IN  [start |-> isoformat(opp.start),
         end |-> isoformat(opp.end),
         duration_minutes |-> duration_minutes,
         suggested_timer |-> SuggestedTimer(duration_minutes),
         task_name |-> IF task_name \in {None, ""} THEN "TBD" ELSE task_name,
         energy |-> energy,
         context |-> [after |-> opp.after_event, before |-> opp.before_event]]

propose_focus_session(task_name, energy) ==
    /\ proposal = NoProposal
    /\ proposal' = Proposal(opportunity, task_name, energy)
    /\ UNCHANGED opportunity

GapTicks ==
    (-(MaxOverlapMinutes * TicksPerMinute))..(MaxGapMinutes * TicksPerMinute)

\* The opportunities proposed for: from instant 0, of every duration.
Opportunities ==
    {[start |-> 0, end |-> d, duration |-> d,
      after_event |-> None, before_event |-> "1"] : d \in GapTicks}

TaskNames == {None, "", "write"}
Energies == {NULL, 7}

InitPropose ==
    /\ today = 1
    /\ habits = <<>>
    /\ habit_log = <<>>
    /\ last = NoCall
    /\ hist = <<>>
    /\ TxnInit
    /\ GapInit
    /\ RemindInit
    /\ FocusInit
    /\ StmtInit
    /\ QueryInit
    /\ opportunity \in Opportunities
    /\ proposal = NoProposal

NextPropose ==
    \E task_name \in TaskNames, energy \in Energies :
        /\ propose_focus_session(task_name, energy)
        /\ UNCHANGED <<habitVars, txnVars, gapVars, remindVars, focusVars, stmtVars, queryVars>>

SpecPropose == InitPropose /\ [][NextPropose]_vars

\* ------------------------------------------------------- scan_and_propose
\* An opportunity of the gap finder, its minutes counted in ticks.
InTicks(opp) ==
    [opp EXCEPT !.start = @ * TicksPerMinute, !.end = @ * TicksPerMinute,
                !.duration = @ * TicksPerMinute]

\* scan_and_propose(min_minutes): find_focus_opportunities, then a proposal
\* for each opportunity, in order.
scan_and_propose(min_minutes) ==
    /\ find_focus_opportunities(min_minutes)
    /\ proposals' = [i \in DOMAIN scan'.opportunities |->
                        Proposal(InTicks(scan'.opportunities[i]), None, NULL)]

ProviderCalendars == UNION {[1..n -> Slots] : n \in 0..ProviderMaxEvents}

\* Any run of the provider, at any instant, not yet scanned.
InitProvider ==
    /\ today = 1
    /\ habits = <<>>
    /\ habit_log = <<>>
    /\ last = NoCall
    /\ hist = <<>>
    /\ TxnInit
    /\ ProposeInit
    /\ RemindInit
    /\ FocusInit
    /\ StmtInit
    /\ QueryInit
    /\ provider \in ProviderRuns
    /\ calendar \in ProviderCalendars
    /\ now \in 0..MaxNow
    /\ scan = NoScan
    /\ proposals = <<>>

NextProvider ==
    \E m \in MinMinutes : scan_and_propose(m) /\ UNCHANGED outsideGap

SpecProvider == InitProvider /\ [][NextProvider]_vars

\* ------------------------------------------------------------ delete_habit
\* DELETE FROM habits WHERE id = ?, committed; True is returned whether or not
\* a row was deleted.  The connection is opened by sqlite3.connect alone: the
\* store does not enforce foreign keys on it, and the rows of habit_log stay.
delete_habit(habit_id) ==
    /\ habits' = Drop(habits, habit_id)
    /\ hist' = Drop(hist, habit_id)
    /\ last' = Call("delete_habit", habit_id, TRUE)
    /\ UNCHANGED <<today, habit_log>>

CrudNames == {"exercise", "reading"}
CrudCadences == {"daily", "weekly"}
CrudIds == 1..CrudMaxId

\* Renaming calls, and the call that names no column.
CrudArgs ==
    {[name |-> n, active |-> None, goal_frequency |-> None] : n \in CrudNames \cup {None}}

\* Habits added, completed, renamed and deleted, on one day.
NextCrud ==
    \/ \E n \in CrudNames, f \in CrudCadences :
          /\ NextId(habits) <= CrudMaxId
          /\ add_habit(n, f)
          /\ UNCHANGED outsideHabits
    \/ \E h \in CrudIds :
          /\ Len(habit_log) < CrudMaxLog
          /\ complete_habit(h)
          /\ UNCHANGED outsideHabits
    \/ \E h \in CrudIds, a \in CrudArgs :
          /\ update_habit(h, a.name, a.active, a.goal_frequency)
          /\ UNCHANGED outsideHabits
    \/ \E h \in CrudIds : delete_habit(h) /\ UNCHANGED outsideHabits

SpecCrud == Init /\ [][NextCrud]_vars

\* ---------------------------------------------------- get_habit_reminders
\* days_since is None, kept as <<>>, or a number of days n, kept as <<n>>.
DaysSince(last_completed, d) ==
    IF last_completed # NULL THEN <<d - last_completed>> ELSE <<>>

ReminderTier_Week(days_since, streak) ==
    IF days_since = <<>> THEN "first step"
    ELSE IF days_since[1] = 1
         THEN (IF streak > 1 THEN "keep the streak" ELSE "you've got this")
    ELSE IF days_since[1] = 2 THEN "no worries"
    ELSE IF days_since[1] < 7 THEN "jump back in"
    ELSE "waiting for you"

\* The message chosen, by what it says.
ReminderTier(days_since, streak) ==
    IF days_since = <<>> THEN "first step"
    ELSE IF days_since[1] = 1
         THEN (IF streak > 1 THEN "keep the streak" ELSE "you've got this")
    ELSE IF days_since[1] = 2 THEN "no worries"
    ELSE IF days_since[1] <= 7 THEN "jump back in"
    ELSE "waiting for you"

Selected_AnyActive(row) == row.active = 1

\* SELECT ... WHERE active = 1 AND goal_frequency = 'daily'
Selected(row) == row.active = 1 /\ row.goal_frequency = "daily"

\* The reminder for a selected row, or none if it was completed today.
Reminder(habit_id, row, d) ==
    IF row.last_completed = d THEN <<>>
    ELSE LET days_since == DaysSince(row.last_completed, d)
         IN  <<[habit_id |-> habit_id, name |-> row.name,
                streak_count |-> row.streak_count, days_since |-> days_since,
                message |-> ReminderTier(days_since, row.streak_count)]>>

\* The loop over the rows fetched, in the order of their ids, from id i on.
RECURSIVE RemindersFrom(_, _, _)
RemindersFrom(table, i, d) ==
    IF \A j \in DOMAIN table : j < i THEN <<>>
    ELSE (IF i \in DOMAIN table /\ Selected(table[i])
          THEN Reminder(i, table[i], d) ELSE <<>>)
         \o RemindersFrom(table, i + 1, d)

get_habit_reminders ==
    /\ reminders' = [today |-> today, list |-> RemindersFrom(habits, 1, today)]
    /\ UNCHANGED habitVars

\* The clock between reminders: midnight passes.
RemindTick ==
    /\ today < RemindMaxDay
    /\ today' = today + 1
    /\ UNCHANGED <<habits, habit_log, last, hist>>

\* The calls between reminders; the result of get_habit_reminders is kept until
\* the next call.
notReminded == <<txnVars, gapVars, proposeVars, focusVars, stmtVars, queryVars>>

\* The updates that bear on reminders: of active and of goal_frequency.
RemindArgs == {a \in UpdateArgs : a.active # None \/ a.goal_frequency # None}

NextRemind ==
    \/ RemindTick /\ UNCHANGED outsideHabits
    \/ \E n \in Names, f \in Cadences :
          add_habit(n, f) /\ reminders' = NoReminders /\ UNCHANGED notReminded
    \/ \E h \in DOMAIN habits :
          /\ Len(habit_log) < RemindMaxLog
          /\ complete_habit(h)
          /\ reminders' = NoReminders
          /\ UNCHANGED notReminded
    \/ \E h \in DOMAIN habits, a \in RemindArgs :
          /\ update_habit(h, a.name, a.active, a.goal_frequency)
          /\ reminders' = NoReminders
          /\ UNCHANGED notReminded
    \/ get_habit_reminders /\ UNCHANGED notReminded

SpecRemind == Init /\ [][NextRemind]_vars

\* ----------------------------------------------------------- focus sessions
\* The clock of the session operations counts ticks from 1.  A start is its
\* INSERT and its commit: between the two the row is pending, no other
\* invocation sees it, and the store's write lock makes other writers wait.
FocusCall(op, session_id, ok) == [op |-> op, session_id |-> session_id, ok |-> ok]

\* start_focus_session(proposal, energy_before), to its INSERT.
StartInsert(start, duration_minutes) ==
    /\ Len(sessions) < MaxSessions
    /\ pending = NoSession
    /\ pending' = NewSessionRow(start, duration_minutes)
    /\ UNCHANGED <<sessions, clock, flast>>

\* start_focus_session from its commit: the new id is returned.
StartCommit ==
    /\ pending # NoSession
    /\ sessions' = Append(sessions, pending)
    /\ pending' = NoSession
    /\ flast' = FocusCall("start_focus_session", Len(sessions) + 1, TRUE)
    /\ UNCHANGED clock

\* The UPDATE of end_focus_session, on a row whose start_time it has read.
Ended(row, t, outcome, energy_after, notes) ==
    [row EXCEPT
        !.end_time = isoformat(t),
        !.actual_duration = int_minutes(t - fromisoformat(row.start_time)),
        !.outcome = outcome,
        !.energy_after = energy_after,
        !.notes = notes]

end_focus_session_Unchecked(session_id, outcome, energy_after, notes) ==
    /\ pending = NoSession
    /\ sessions' = [i \in DOMAIN sessions |->
                        IF i = session_id
                        THEN Ended(sessions[i], clock, outcome, energy_after, notes)
                        ELSE sessions[i]]
    /\ flast' = FocusCall("end_focus_session", session_id, TRUE)
    /\ UNCHANGED <<pending, clock>>

end_focus_session(session_id, outcome, energy_after, notes) ==
    /\ pending = NoSession
    /\ IF session_id \notin DOMAIN sessions
       THEN \* "Session not found"
            /\ flast' = FocusCall("end_focus_session", session_id, FALSE)
            /\ UNCHANGED sessions
       ELSE /\ sessions' = [sessions EXCEPT ![session_id] =
                                Ended(@, clock, outcome, energy_after, notes)]
            /\ flast' = FocusCall("end_focus_session", session_id, TRUE)
    /\ UNCHANGED <<pending, clock>>

\* WHERE end_time IS NULL
ActiveRows(table) == {i \in DOMAIN table : table[i].end_time = NullText}

\* The order of two texts of instants, as the store compares TEXT.
TextBefore(a, b) == a.iso <= b.iso

get_active_session_LatestId ==
    /\ IF ActiveRows(sessions) = {}
       THEN flast' = FocusCall("get_active_session", 0, FALSE)
       ELSE flast' = FocusCall("get_active_session", Max(ActiveRows(sessions)), TRUE)
    /\ UNCHANGED <<sessions, pending, clock>>

\* ORDER BY start_time DESC LIMIT 1: a row none of the active rows starts
\* after; which one, among rows of the same start_time, is the store's choice.
get_active_session ==
    /\ IF ActiveRows(sessions) = {}
       THEN flast' = FocusCall("get_active_session", 0, FALSE)
       ELSE \E i \in ActiveRows(sessions) :
               /\ \A j \in ActiveRows(sessions) :
                     TextBefore(sessions[j].start_time, sessions[i].start_time)
               /\ flast' = FocusCall("get_active_session", i, TRUE)
    /\ UNCHANGED <<sessions, pending, clock>>

FocusTick ==
    /\ clock < FocusMaxClock
    /\ clock' = clock + 1
    /\ UNCHANGED <<sessions, pending, flast>>

\* The starts of the proposals handed to start_focus_session: the instant of
\* the call, or the start of a gap found by a scan, before or after it.
ProposalStarts == {isoformat(t) : t \in 1..FocusMaxClock}
SessionIds == 1..(MaxSessions + 1)
Outcomes == {"completed", "abandoned"}

\* One habit, not yet completed, and no session.
InitFocus ==
    /\ today = 1
    /\ habits = <<NewHabitRow("exercise", "daily")>>
    /\ habit_log = <<>>
    /\ last = NoCall
    /\ hist = <<NoHistory>>
    /\ TxnInit
    /\ GapInit
    /\ ProposeInit
    /\ RemindInit
    /\ FocusInit
    /\ StmtInit
    /\ QueryInit

outsideFocus == <<habitVars, txnVars, gapVars, proposeVars, remindVars, stmtVars, queryVars>>

NextFocus ==
    \/ FocusTick /\ UNCHANGED outsideFocus
    \/ \E start \in ProposalStarts : StartInsert(start, 90) /\ UNCHANGED outsideFocus
    \/ StartCommit /\ UNCHANGED outsideFocus
    \/ \E id \in SessionIds, outcome \in Outcomes :
          end_focus_session(id, outcome, NULL, "") /\ UNCHANGED outsideFocus
    \/ get_active_session /\ UNCHANGED outsideFocus
    \/ \E h \in HabitIds \ DOMAIN habits : complete_habit(h) /\ UNCHANGED outsideHabits

SpecFocus == InitFocus /\ [][NextFocus]_vars

\* ------------------------------------- the mutating operations, by statement
\* Each of add_habit, complete_habit, update_habit, delete_habit,
\* start_focus_session and end_focus_session as the statements it sends to the
\* store, run by one process, one operation at a time.  habits, habit_log and
\* sessions are the committed tables; conn holds them as the operation's
\* connection sees them.  Any statement and the commit may raise
\* sqlite3.Error; the handler then returns 0 or False and leaves the
\* connection as it is, and the connection is dropped, its open transaction
\* rolled back, when the next operation connects or the process ends.
Tables == [habits |-> habits, habit_log |-> habit_log, sessions |-> sessions]

Args(op, habit_id, name, active, goal_frequency, session_id, outcome) ==
    [op |-> op, habit_id |-> habit_id, name |-> name, active |-> active,
     goal_frequency |-> goal_frequency, session_id |-> session_id,
     outcome |-> outcome]

\* The calls made.
StmtCalls ==
    {Args("add_habit", 0, n, None, f, 0, None) : n \in Names, f \in CrudCadences}
    \cup {Args("complete_habit", h, None, None, None, 0, None) : h \in HabitIds}
    \cup {Args("update_habit", h, a.name, a.active, a.goal_frequency, 0, None) :
            h \in HabitIds, a \in UpdateArgs}
    \cup {Args("delete_habit", h, None, None, None, 0, None) : h \in HabitIds}
    \cup {Args("start_focus_session", 0, None, None, None, 0, None)}
    \cup {Args("end_focus_session", 0, None, None, None, id, "completed") :
            id \in SessionIds}

\* The operation has returned: 0 or False if not ok.
Returned(a, ok, before) == [pc |-> "idle", call |-> a, ok |-> ok, before |-> before]

\* Where the operation stands after connect and the statements that only
\* read: at its first write, or at an early return ("False").
FirstWrite(a) ==
    CASE a.op = "add_habit" -> "insert"
      [] a.op = "complete_habit" ->
            IF a.habit_id \notin DOMAIN habits THEN "False"
            ELSE IF AlreadyCompletedToday(habits[a.habit_id], today) THEN "False"
            ELSE "insert"
      [] a.op = "update_habit" ->
            IF a.name = None /\ a.active = None /\ a.goal_frequency = None
            THEN "False" ELSE "update"
      [] a.op = "delete_habit" -> "delete"
      [] a.op = "start_focus_session" -> "insert"
      [] a.op = "end_focus_session" ->
            IF a.session_id \notin DOMAIN sessions THEN "False" ELSE "update"

\* self.connect(), the SELECT if there is one, and the early returns.
Begin(a) ==
    /\ frame.pc = "idle"
    /\ a.op = "add_habit" => NextId(habits) <= MaxHabitId
    /\ a.op = "complete_habit" => Len(habit_log) < StmtMaxLog
    /\ a.op = "start_focus_session" => Len(sessions) < MaxSessions
    /\ conn' = [open |-> TRUE, habits |-> habits, habit_log |-> habit_log,
                sessions |-> sessions]
    /\ frame' = IF FirstWrite(a) = "False" THEN Returned(a, FALSE, Tables)
                ELSE [pc |-> FirstWrite(a), call |-> a, ok |-> TRUE,
                      before |-> Tables]
    /\ UNCHANGED <<habits, habit_log, sessions>>

\* The statement refused by the store's UNIQUE constraint on habits.name.
Violates(a, c) ==
    \/ a.op = "add_habit" /\ \E i \in DOMAIN c.habits : c.habits[i].name = a.name
    \/ /\ a.op = "update_habit"
       /\ a.name # None
       /\ a.habit_id \in DOMAIN c.habits
       /\ \E i \in DOMAIN c.habits \ {a.habit_id} : c.habits[i].name = a.name

\* The tables of connection c after the write statement at pc.
Written(a, pc, c) ==
    CASE a.op = "add_habit" ->
            [c EXCEPT !.habits = Put(@, NextId(@), NewHabitRow(a.name, a.goal_frequency))]
      [] a.op = "complete_habit" /\ pc = "insert" ->
            [c EXCEPT !.habit_log = Append(@, NewLogRow(a.habit_id, today))]
      [] a.op = "complete_habit" /\ pc = "update" ->
            [c EXCEPT !.habits[a.habit_id] =
                ApplyUpdate(UpdateKind(@.goal_frequency, @.last_completed, today),
                            @, today)]
      [] a.op = "update_habit" ->
            IF a.habit_id \in DOMAIN c.habits
            THEN [c EXCEPT !.habits[a.habit_id] =
                    SetColumns(@, a.name, a.active, a.goal_frequency)]
            ELSE c
      [] a.op = "delete_habit" -> [c EXCEPT !.habits = Drop(@, a.habit_id)]
      [] a.op = "start_focus_session" ->
            [c EXCEPT !.sessions = Append(@, NewSessionRow(isoformat(clock), 90))]
      [] a.op = "end_focus_session" ->
            [c EXCEPT !.sessions[a.session_id] = Ended(@, clock, a.outcome, NULL, "")]

\* The position after the write statement at pc.
NextStatement(a, pc) ==
    IF a.op = "complete_habit" /\ pc = "insert" THEN "update" ELSE "commit"

\* cursor.execute of a write.  The first write opens the transaction; with
\* publish the connection would commit each statement as it is executed.
Statement(publish) ==
    /\ frame.pc \in {"insert", "update", "delete"}
    /\ IF Violates(frame.call, conn)
       THEN \* sqlite3.IntegrityError: return 0 or False
            /\ frame' = Returned(frame.call, FALSE, frame.before)
            /\ UNCHANGED <<conn, habits, habit_log, sessions>>
       ELSE LET c == Written(frame.call, frame.pc, conn)
            IN  /\ conn' = c
                /\ frame' = [frame EXCEPT !.pc = NextStatement(frame.call, @)]
                /\ IF publish
                   THEN /\ habits' = c.habits
                        /\ habit_log' = c.habit_log
                        /\ sessions' = c.sessions
                   ELSE UNCHANGED <<habits, habit_log, sessions>>

Execute_Autocommit == Statement(TRUE)

Execute == Statement(FALSE)

\* self.conn.commit(), self.close(), return the id or True.
Commit ==
    /\ frame.pc = "commit"
    /\ habits' = conn.habits
    /\ habit_log' = conn.habit_log
    /\ sessions' = conn.sessions
    /\ conn' = NoConn
    /\ frame' = Returned(frame.call, TRUE, frame.before)

\* sqlite3.Error raised by a write or by the commit: return 0 or False.
StoreError ==
    /\ frame.pc \in {"insert", "update", "delete", "commit"}
    /\ frame' = Returned(frame.call, FALSE, frame.before)
    /\ UNCHANGED <<conn, habits, habit_log, sessions>>

outsideStmt == <<today, last, hist, pending, clock, flast,
                 txnVars, gapVars, proposeVars, remindVars, queryVars>>

NextStmt ==
    \/ \E a \in StmtCalls : Begin(a) /\ UNCHANGED outsideStmt
    \/ Execute /\ UNCHANGED outsideStmt
    \/ Commit /\ UNCHANGED outsideStmt
    \/ StoreError /\ UNCHANGED outsideStmt

SpecStmt == Init /\ [][NextStmt]_vars

\* ------------------------------------------------------------- the queries
\* The operations that only SELECT, or do not open the store at all.  answer
\* holds what the last of list_habits, get_habit_status, get_habit_history
\* and get_session_stats returned, as a sequence: empty for None.
Answer(op, value) == [op |-> op, value |-> value]

\* ORDER BY name, over the names of the model.
NameRank(name) == IF name = "exercise" THEN 1 ELSE 2

\* ORDER BY active DESC, name with include_inactive; ORDER BY name without.
ListedBefore(a, b, include_inactive) ==
    IF include_inactive /\ a.active # b.active THEN a.active > b.active
    ELSE NameRank(a.name) <= NameRank(b.name)

\* The rows of the ids, in the order of the SELECT.
RECURSIVE ListFrom(_, _)
ListFrom(ids, include_inactive) ==
    IF ids = {} THEN <<>>
    ELSE LET first == CHOOSE i \in ids :
                        \A j \in ids :
                            ListedBefore(habits[i], habits[j], include_inactive)
         IN  <<[id |-> first, row |-> habits[first]]>>
             \o ListFrom(ids \ {first}, include_inactive)

list_habits(include_inactive) ==
    /\ answer' = Answer("list_habits",
            ListFrom({i \in DOMAIN habits : include_inactive \/ habits[i].active = 1},
                     include_inactive))
    /\ UNCHANGED habitVars

get_habit_status_Resets(habit_id) ==
    /\ IF habit_id \notin DOMAIN habits
       THEN answer' = Answer("get_habit_status", <<>>) /\ UNCHANGED habits
       ELSE LET days_since == DaysSince(habits[habit_id].last_completed, today)
                row == IF days_since # <<>> /\ days_since[1] > 1
                       THEN [habits[habit_id] EXCEPT !.streak_count = 0]
                       ELSE habits[habit_id]
            IN  /\ habits' = [habits EXCEPT ![habit_id] = row]
                /\ answer' = Answer("get_habit_status",
                        <<[id |-> habit_id, row |-> row,
                           days_since_completion |-> days_since]>>)
    /\ UNCHANGED <<today, habit_log, last, hist>>

\* The row and the days since its last_completed, or None.
get_habit_status(habit_id) ==
    /\ IF habit_id \notin DOMAIN habits
       THEN answer' = Answer("get_habit_status", <<>>)
       ELSE answer' = Answer("get_habit_status",
                <<[id |-> habit_id, row |-> habits[habit_id],
                   days_since_completion |->
                       DaysSince(habits[habit_id].last_completed, today)]>>)
    /\ UNCHANGED habitVars

\* The timestamps above t among rows, latest first.
RECURSIVE Latest(_)
Latest(stamps) ==
    IF stamps = <<>> THEN <<>>
    ELSE LET k == CHOOSE i \in DOMAIN stamps :
                    \A j \in DOMAIN stamps : stamps[j] <= stamps[i]
         IN  <<stamps[k]>>
             \o Latest(SubSeq(stamps, 1, k - 1) \o SubSeq(stamps, k + 1, Len(stamps)))

\* WHERE habit_id = ? AND timestamp > datetime('now', '-days days')
\* ORDER BY timestamp DESC
get_habit_history(habit_id, days) ==
    /\ LET Mine(r) == r.habit_id = habit_id /\ r.timestamp > today - days
           rows == SelectSeq(habit_log, Mine)
       IN  answer' = Answer("get_habit_history",
                            Latest([k \in DOMAIN rows |-> rows[k].timestamp]))
    /\ UNCHANGED habitVars

\* The sum of column over the rows of ids.
RECURSIVE Sum(_, _)
Sum(ids, column) ==
    IF ids = {} THEN 0
    ELSE LET i == CHOOSE j \in ids : TRUE
         IN  sessions[i][column] + Sum(ids \ {i}, column)

\* get_session_stats(days_back): the ended sessions that started within
\* days_back; a mean is kept as its sum and its count, and is 0 without
\* rows.  energy_before is not kept in the rows of the model, and with it the
\* mean of the change of energy is left out.
get_session_stats(days_back) ==
    /\ LET recent == {i \in DOMAIN sessions :
                        /\ sessions[i].end_time # NullText
                        /\ fromisoformat(sessions[i].start_time) > clock - days_back}
           counted == {i \in recent : sessions[i].outcome \in {"completed", "extended"}}
           completed == {i \in recent : sessions[i].outcome = "completed"}
       IN  answer' = Answer("get_session_stats",
                <<[total_sessions |-> Cardinality(recent),
                   avg_duration_minutes |->
                       <<Sum(counted, "actual_duration"), Cardinality(counted)>>,
                   completion_rate |-> <<Cardinality(completed), Cardinality(recent)>>,
                   days_analyzed |-> days_back]>>)
    /\ UNCHANGED <<sessions, pending, clock>>

\* Midnight passes between calls.
QueryTick ==
    /\ today < QueryMaxDay
    /\ today' = today + 1
    /\ UNCHANGED <<habits, habit_log, last, hist>>

\* What a call returned is kept until the next call, of whichever operation:
\* each call clears the results of the calls before it.
Fresh(kept) ==
    /\ IF "reminders" \in kept THEN TRUE ELSE reminders' = NoReminders
    /\ IF "flast" \in kept THEN TRUE ELSE flast' = NoFocusCall
    /\ IF "scan" \in kept THEN TRUE ELSE scan' = NoScan
    /\ IF "proposals" \in kept THEN TRUE ELSE proposals' = <<>>
    /\ IF "proposal" \in kept THEN TRUE ELSE proposal' = NoProposal
    /\ IF "answer" \in kept THEN TRUE ELSE answer' = NoAnswer

\* What no call of the habits changes, and what no call at all changes here.
queryFixed == <<txnVars, stmtVars, calendar, now, provider, opportunity>>
sessionStore == <<sessions, pending, clock>>

\* One ended session and one active one; a calendar of two events and an
\* opportunity of 100 minutes to propose for.
InitQuery ==
    /\ today = 1
    /\ habits = <<>>
    /\ habit_log = <<>>
    /\ last = NoCall
    /\ hist = <<>>
    /\ TxnInit
    /\ calendar = <<[start |-> 1, end |-> 2], [start |-> 3, end |-> 4]>>
    /\ now = 0
    /\ scan = NoScan
    /\ provider = "ok"
    /\ proposals = <<>>
    /\ opportunity \in {o \in Opportunities : o.duration = 100 * TicksPerMinute}
    /\ proposal = NoProposal
    /\ RemindInit
    /\ sessions = <<Ended(NewSessionRow(isoformat(1), 90), 1, "completed", NULL, ""),
                    NewSessionRow(isoformat(1), 90)>>
    /\ pending = NoSession
    /\ clock = 1
    /\ flast = NoFocusCall
    /\ StmtInit
    /\ QueryInit

HistoryDays == {1, QueryMaxDay}
StatsDaysBack == 0..1

NextQuery ==
    \/ QueryTick /\ Fresh({}) /\ UNCHANGED <<queryFixed, sessionStore>>
    \/ \E n \in Names, f \in CrudCadences :
          add_habit(n, f) /\ Fresh({}) /\ UNCHANGED <<queryFixed, sessionStore>>
    \/ \E h \in DOMAIN habits :
          /\ Len(habit_log) < QueryMaxLog
          /\ complete_habit(h)
          /\ Fresh({})
          /\ UNCHANGED <<queryFixed, sessionStore>>
    \/ \E h \in DOMAIN habits, a \in RemindArgs :
          /\ update_habit(h, a.name, a.active, a.goal_frequency)
          /\ Fresh({})
          /\ UNCHANGED <<queryFixed, sessionStore>>
    \/ \E include_inactive \in BOOLEAN :
          /\ list_habits(include_inactive)
          /\ Fresh({"answer"})
          /\ UNCHANGED <<queryFixed, sessionStore>>
    \/ \E h \in HabitIds :
          /\ get_habit_status(h)
          /\ Fresh({"answer"})
          /\ UNCHANGED <<queryFixed, sessionStore>>
    \/ \E h \in HabitIds, days \in HistoryDays :
          /\ get_habit_history(h, days)
          /\ Fresh({"answer"})
          /\ UNCHANGED <<queryFixed, sessionStore>>
    \/ get_habit_reminders
          /\ Fresh({"reminders"})
          /\ UNCHANGED <<queryFixed, sessionStore>>
    \/ get_active_session
          /\ Fresh({"flast"})
          /\ UNCHANGED <<queryFixed, habitVars>>
    \/ \E days_back \in StatsDaysBack :
          /\ get_session_stats(days_back)
          /\ Fresh({"answer"})
          /\ UNCHANGED <<queryFixed, habitVars>>
    \/ \E m \in MinMinutes :
          /\ find_focus_opportunities(m)
          /\ Fresh({"scan"})
          /\ UNCHANGED <<queryFixed, habitVars, sessionStore>>
    \/ \E m \in MinMinutes :
          /\ scan_and_propose(m)
          /\ Fresh({"scan", "proposals"})
          /\ UNCHANGED <<queryFixed, habitVars, sessionStore>>
    \/ /\ propose_focus_session(None, NULL)
       /\ Fresh({"proposal"})
       /\ UNCHANGED <<queryFixed, habitVars, sessionStore>>

SpecQuery == InitQuery /\ [][NextQuery]_vars

\* ================================================================ claims
\* The last call was complete_habit(h), and it found h a daily habit.
CompletedDaily(h) ==
    /\ last.op = "complete_habit"
    /\ last.habit_id = h
    /\ last.row.goal_frequency = "daily"

\* C1: complete_habit on a daily habit whose last_completed is the day before
\* today adds exactly 1 to the stored streak_count and sets last_completed to
\* today.
C1_StreakContinues ==
    \A h \in DOMAIN habits :
        (/\ CompletedDaily(h)
         /\ last.row.last_completed # NULL
         /\ last.row.last_completed = last.today - 1)
        => /\ last.ok
           /\ habits[h].streak_count = last.row.streak_count + 1
           /\ habits[h].last_completed = last.today

\* Completed on D, again on D+1: the streak is 2.
C1_Witness ==
    /\ last.habit_id \in DOMAIN habits
    /\ CompletedDaily(last.habit_id)
    /\ last.ok
    /\ last.row.last_completed = last.today - 1
    /\ last.row.streak_count = 1
    /\ habits[last.habit_id].streak_count = 2

\* C2: complete_habit on a daily habit whose last_completed is before
\* yesterday sets streak_count to 1, whatever it was, and last_completed to
\* today.
C2_StreakResets ==
    \A h \in DOMAIN habits :
        (/\ CompletedDaily(h)
         /\ last.row.last_completed # NULL
         /\ last.row.last_completed < last.today - 1)
        => /\ last.ok
           /\ habits[h].streak_count = 1
           /\ habits[h].last_completed = last.today

\* A streak of 2 or more, a skipped day, a completion: the streak is 1.
C2_Witness ==
    /\ last.habit_id \in DOMAIN habits
    /\ CompletedDaily(last.habit_id)
    /\ last.ok
    /\ last.row.last_completed # NULL
    /\ last.row.last_completed < last.today - 1
    /\ last.row.streak_count >= 2
    /\ habits[last.habit_id].streak_count = 1

\* C3: complete_habit on a daily habit that was never completed sets
\* streak_count to 1 and last_completed to today.
C3_FirstCompletion ==
    \A h \in DOMAIN habits :
        (CompletedDaily(h) /\ last.row.last_completed = NULL)
        => /\ last.ok
           /\ habits[h].streak_count = 1
           /\ habits[h].last_completed = last.today

\* A first completion on a day other than the first.
C3_Witness ==
    /\ last.habit_id \in DOMAIN habits
    /\ CompletedDaily(last.habit_id)
    /\ last.ok
    /\ last.row.last_completed = NULL
    /\ last.today > 1
    /\ habits[last.habit_id].streak_count = 1
    /\ habits[last.habit_id].last_completed = last.today

\* The rows of the log before the last call.
LogBefore == SubSeq(habit_log, 1, last.logged)

\* The rows of log for habit h dated d.
Entries(log, h, d) ==
    {i \in DOMAIN log : log[i].habit_id = h /\ log[i].timestamp = d}

\* The last call left the store as it found it.
StoreAsFound(h) ==
    /\ Len(habit_log) = last.logged
    /\ habits[h] = last.row

\* C4: a complete_habit call on a daily habit made on a day on which a
\* completion of that habit was already accepted is rejected: it fails, appends
\* no log row and leaves the habit row as it was; a habit that is daily and was
\* only ever completed has at most one log row a day, and exactly one for each
\* day with an accepted completion.
C4_SameDayRejected ==
    \A h \in DOMAIN habits :
        /\ (CompletedDaily(h) /\ Entries(LogBefore, h, last.today) # {})
           => (~last.ok /\ StoreAsFound(h))
        /\ (habits[h].goal_frequency = "daily" /\ ~hist[h].updated)
           => \A d \in Days :
                Cardinality(Entries(habit_log, h, d))
                    = IF d \in hist[h].accepted THEN 1 ELSE 0

\* A second attempt on the day of an accepted completion, turned down.
C4_Witness ==
    /\ last.habit_id \in DOMAIN habits
    /\ CompletedDaily(last.habit_id)
    /\ ~hist[last.habit_id].updated
    /\ ~last.ok
    /\ Cardinality(Entries(habit_log, last.habit_id, last.today)) = 1
    /\ last.row.streak_count = 2

RECURSIVE RunLength(_, _)
\* The number of consecutive days ending at d that are all in S.
RunLength(S, d) == IF d \in S THEN 1 + RunLength(S, d - 1) ELSE 0

\* C5: for a daily habit only ever acted on by complete_habit, streak_count is
\* the length of the run of consecutive days ending at last_completed on each
\* of which a completion was accepted (there is no such day while it was
\* never completed).
C5_StreakIsRunLength ==
    \A h \in DOMAIN habits :
        (habits[h].goal_frequency = "daily" /\ ~hist[h].updated)
        => IF habits[h].last_completed = NULL
           THEN hist[h].accepted = {}
           ELSE /\ habits[h].last_completed \in hist[h].accepted
                /\ \A d \in hist[h].accepted : d <= habits[h].last_completed
                /\ habits[h].streak_count
                     = RunLength(hist[h].accepted, habits[h].last_completed)

\* Completed on days 1 and 2 (streak 2), day 3 skipped, completed on day 4.
C5_Witness ==
    \E h \in DOMAIN habits :
        /\ habits[h].goal_frequency = "daily"
        /\ ~hist[h].updated
        /\ hist[h].accepted = {1, 2, 4}
        /\ habits[h].streak_count = 1

\* The last call was complete_habit(h), and it found h weekly or monthly.
CompletedPeriodic(h) ==
    /\ last.op = "complete_habit"
    /\ last.habit_id = h
    /\ last.row.goal_frequency \in {"weekly", "monthly"}

\* C6: every complete_habit call on a weekly or monthly habit succeeds, appends
\* one log row, sets last_completed to today and leaves streak_count as it was;
\* and no step changes the streak_count of a habit that is weekly or monthly.
C6_PeriodicKeepsStreak ==
    /\ [](\A h \in DOMAIN habits :
            CompletedPeriodic(h)
            => /\ last.ok
               /\ Len(habit_log) = last.logged + 1
               /\ habit_log[Len(habit_log)] = NewLogRow(h, last.today)
               /\ habits[h].last_completed = last.today
               /\ habits[h].streak_count = last.row.streak_count)
    /\ [][\A h \in DOMAIN habits :
            habits[h].goal_frequency \in {"weekly", "monthly"}
            => habits'[h].streak_count = habits[h].streak_count]_vars

\* A second completion of a weekly habit on one day, accepted.
C6_Witness ==
    /\ last.habit_id \in DOMAIN habits
    /\ CompletedPeriodic(last.habit_id)
    /\ last.ok
    /\ last.row.last_completed = last.today
    /\ Cardinality(Entries(habit_log, last.habit_id, last.today)) = 2

\* The log row and the day of invocation p.
TxnRow(p) == NewLogRow(proc[p].habit_id, proc[p].today)

\* C7: a complete_habit call that returns True commits exactly one new log row
\* together with the habit update that sets last_completed to its today, the
\* INSERT being issued before the UPDATE; no committed store holds the one
\* without the other, and a call that fails commits nothing.
C7_LogAndUpdateTogether ==
    /\ [](\A p \in Procs :
            /\ proc[p].pc = "update"
               => /\ tx.habit_log = Append(habit_log, TxnRow(p))
                  /\ tx.habits = habits
            /\ proc[p].pc = "commit"
               => /\ tx.habit_log = Append(habit_log, TxnRow(p))
                  /\ tx.habits[proc[p].habit_id].last_completed = proc[p].today)
    /\ [][\A p \in Procs :
            (proc[p].pc # "idle" /\ proc'[p].pc = "idle")
            => IF proc'[p].ret = "True"
               THEN /\ habit_log' = Append(habit_log, TxnRow(p))
                    /\ habits'[proc[p].habit_id].last_completed = proc[p].today
               ELSE habit_log' = habit_log /\ habits' = habits]_vars
    /\ [][(habit_log' # habit_log \/ habits' # habits)
            => \E p \in Procs :
                /\ proc[p].pc = "commit" /\ proc'[p].ret = "True"
                /\ habit_log' = Append(habit_log, TxnRow(p))
                /\ habits'[proc[p].habit_id].last_completed = proc[p].today
                /\ \A h \in DOMAIN habits :
                      h # proc[p].habit_id => habits'[h] = habits[h]]_vars

\* One invocation has committed its second completion, another has failed
\* after its SELECT.
C7_Witness ==
    /\ Len(habit_log) = 2
    /\ habits[1].last_completed = today
    /\ \E p, q \in Procs :
          /\ proc[p].pc = "idle" /\ proc[p].ret = "True"
          /\ proc[q].pc = "idle" /\ proc[q].ret = "False"
    /\ lock = 0

\* The opportunities of the last scan that have no preceding label.
Leading == {k \in DOMAIN scan.opportunities : scan.opportunities[k].after_event = None}

\* C8: for a non-empty event list and a now before the first event's start, a
\* leading gap (start = now, end = first.start, no preceding label, following
\* label = the first label) is emitted iff first.start - now >= min_minutes;
\* when the first event starts at or before now none is emitted.
C8_LeadingGapIff ==
    (scan.done /\ scan.events # <<>>)
    => LET first == scan.events[1]
       IN  /\ Leading \subseteq {1}
           /\ first.start > scan.now
              => (Leading = {1} <=> first.start - scan.now >= scan.min_minutes)
           /\ first.start <= scan.now => Leading = {}
           /\ Leading = {1}
              => scan.opportunities[1]
                    = [start |-> scan.now, end |-> first.start,
                       duration |-> first.start - scan.now,
                       after_event |-> None, before_event |-> first.summary]

\* A leading gap of exactly min_minutes, emitted.
C8_Witness ==
    /\ scan.done
    /\ scan.min_minutes = 2
    /\ Leading = {1}
    /\ scan.opportunities[1].duration = 2
    /\ scan.now = 1

\* The opportunities of the last scan for the pair of events i, i + 1.
ForPair(i) ==
    {k \in DOMAIN scan.opportunities :
        /\ scan.opportunities[k].after_event = scan.events[i].summary
        /\ scan.opportunities[k].before_event = scan.events[i + 1].summary}

\* C9: for every adjacent pair of events with end_i >= start_(i+1) no gap is
\* emitted, for every min_minutes; every emitted gap has end > start and a
\* duration above zero.
C9_NoGapForOverlap ==
    scan.done
    => /\ \A i \in 1..(Len(scan.events) - 1) :
            scan.events[i].end >= scan.events[i + 1].start => ForPair(i) = {}
       /\ \A k \in DOMAIN scan.opportunities :
            /\ scan.opportunities[k].end > scan.opportunities[k].start
            /\ scan.opportunities[k].duration > 0

\* The adjacent pairs of the last scan that are at least min_minutes apart.
WidePairs ==
    {i \in 1..(Len(scan.events) - 1) :
        scan.events[i + 1].start - scan.events[i].end >= scan.min_minutes}

\* The opportunities of the last scan after the leading gap, if any.
Interior ==
    IF Leading = {} THEN scan.opportunities
    ELSE SubSeq(scan.opportunities, 2, Len(scan.opportunities))

\* C10: apart from the leading gap, the output is, in input order, one gap
\* (end_i, start_(i+1)) labelled label_i, label_(i+1) for each adjacent pair at
\* least min_minutes apart, and nothing else; no gap follows the last event,
\* and n events give at most n gaps.
C10_InteriorGapsExact ==
    scan.done
    => /\ Len(Interior) = Cardinality(WidePairs)
       /\ \A i \in WidePairs :
            Interior[Cardinality({j \in WidePairs : j <= i})]
                = [start |-> scan.events[i].end, end |-> scan.events[i + 1].start,
                   duration |-> scan.events[i + 1].start - scan.events[i].end,
                   after_event |-> scan.events[i].summary,
                   before_event |-> scan.events[i + 1].summary]
       /\ \A k \in DOMAIN scan.opportunities :
            scan.opportunities[k].before_event # None
       /\ Len(scan.opportunities) <= Len(scan.events)

\* Three events a minute apart, the first a minute from now: three gaps, and
\* the provider's order was not the order by start.
C10_Witness ==
    /\ scan.done
    /\ scan.min_minutes = 1
    /\ Len(scan.events) = 3
    /\ Len(scan.opportunities) = 3
    /\ scan.events[1].summary # "1"
    /\ WidePairs = {1, 2}

\* A proposal was made for the opportunity.
Proposed == proposal # NoProposal

\* C11: the proposal carries the whole minutes of the opportunity's duration,
\* the fraction dropped, and its timer is chosen by them: from 240 on the
\* 120-minute deep work block, from 180 to 239 the 90-minute block of 3
\* pomodoros, from 120 to 179 the 90-minute focus block, below 120 the
\* whole minutes less 15.
C11_TimerByTier ==
    Proposed
    => LET d == opportunity.duration
           m == proposal.duration_minutes
           timer == proposal.suggested_timer
       IN  /\ d >= 0 => (m * TicksPerMinute <= d /\ d < (m + 1) * TicksPerMinute)
           /\ d < 0 => (m * TicksPerMinute >= d /\ d > (m - 1) * TicksPerMinute)
           /\ m >= 240 => timer = [minutes |-> 120, label |-> "deep work block"]
           /\ (180 <= m /\ m <= 239)
              => timer = [minutes |-> 90, label |-> "3 pomodoros + long break"]
           /\ (120 <= m /\ m <= 179)
              => timer = [minutes |-> 90, label |-> "focus block"]
           /\ m < 120 => timer = [minutes |-> m - 15, label |-> "focus session"]

\* A gap one tick short of 240 minutes is proposed as 239 minutes, with the
\* 3-pomodoro block.
C11_Witness ==
    /\ Proposed
    /\ opportunity.duration = 240 * TicksPerMinute - 1
    /\ proposal.duration_minutes = 239
    /\ proposal.suggested_timer.label = "3 pomodoros + long break"

\* C12: a run of the calendar provider that ends with a non-zero exit status,
\* by the timeout or with unparsable output gives the empty list of events,
\* and the scan returns; a scan over the empty list of events returns no
\* opportunity and no proposal, at every instant and for every min_minutes.
C12_FailureIsEmpty ==
    scan.done
    => /\ provider # "ok" => scan.events = <<>>
       /\ scan.events = <<>> => (scan.opportunities = <<>> /\ proposals = <<>>)

\* The provider exits with a non-zero status over a calendar that has events
\* in the window: the scan returns nothing.
C12_Witness ==
    /\ scan.done
    /\ provider = "exit"
    /\ filtered_events(calendar, scan.now, Lookahead) # <<>>
    /\ scan.events = <<>>
    /\ scan.opportunities = <<>>
    /\ proposals = <<>>

\* The reminders the last call returned, if the last call was
\* get_habit_reminders.
Reminded == reminders # NoReminders

\* C13: the message of a reminder is decided by its days_since and its
\* streak_count alone: no days_since gives the first-step message; 1 gives
\* the streak message if streak_count > 1 and plain encouragement otherwise;
\* 2 gives the no-worries message; the jump-back-in message is given exactly
\* for 3 to 7; more than 7 gives the waiting message.  days_since is the
\* number of days from the habit's last_completed to the date of the call,
\* and is never below 1.
C13_TierByDays ==
    Reminded
    => \A k \in DOMAIN reminders.list :
         LET r == reminders.list[k]
             row == habits[r.habit_id]
             known == r.days_since # <<>>
             n == r.days_since[1]
         IN  /\ r.streak_count = row.streak_count
             /\ known <=> row.last_completed # NULL
             /\ ~known => r.message = "first step"
             /\ known =>
                  /\ n = reminders.today - row.last_completed
                  /\ n >= 1
                  /\ (n = 1 /\ r.streak_count > 1) => r.message = "keep the streak"
                  /\ (n = 1 /\ r.streak_count <= 1) => r.message = "you've got this"
                  /\ n = 2 => r.message = "no worries"
                  /\ r.message = "jump back in" <=> (3 <= n /\ n <= 7)
                  /\ n > 7 => r.message = "waiting for you"

\* A habit last completed 7 days before the call, a streak of 2 behind it:
\* jump back in.
C13_Witness ==
    /\ Reminded
    /\ \E k \in DOMAIN reminders.list :
          /\ reminders.list[k].days_since = <<7>>
          /\ reminders.list[k].streak_count = 2
          /\ reminders.list[k].message = "jump back in"

\* The reminders of the last call for habit h.
RemindersOf(h) == {k \in DOMAIN reminders.list : reminders.list[k].habit_id = h}

\* Habit h is due on the date of the last call: active, daily, and not
\* completed on that date.
Due(h) ==
    /\ habits[h].active = 1
    /\ habits[h].goal_frequency = "daily"
    /\ habits[h].last_completed # reminders.today

\* C14: get_habit_reminders returns one reminder for each habit that is
\* active, daily and not completed on the date of the call, and none for any
\* other habit: none for a daily habit completed that day, none for an
\* inactive, a weekly or a monthly habit.
C14_OneReminderPerDueHabit ==
    Reminded
    => /\ \A k \in DOMAIN reminders.list :
             reminders.list[k].habit_id \in DOMAIN habits
       /\ \A h \in DOMAIN habits :
             Cardinality(RemindersOf(h)) = (IF Due(h) THEN 1 ELSE 0)

\* A daily habit, active, with a streak, completed on the day of the call:
\* no reminder.
C14_Witness ==
    /\ Reminded
    /\ reminders.list = <<>>
    /\ \E h \in DOMAIN habits :
          /\ habits[h].active = 1
          /\ habits[h].goal_frequency = "daily"
          /\ habits[h].streak_count = 2
          /\ habits[h].last_completed = reminders.today

\* The last call found no row of the id it was given.
FoundNoRow == last.row = NoRow

\* C16: update_habit and delete_habit called with an id that no habit has
\* return False and leave the store as it was.
C16_MissingIdFails ==
    (last.op \in {"update_habit", "delete_habit"} /\ FoundNoRow)
    => /\ ~last.ok
       /\ Len(habit_log) = last.logged
       /\ last.habit_id \notin DOMAIN habits

\* Some habit holds the name; some habit other than h holds it.
Held(name) == \E i \in DOMAIN habits : habits[i].name = name
HeldByOther(h, name) == \E i \in DOMAIN habits \ {h} : habits[i].name = name

\* The step fails and leaves both tables as they were.
Refused == ~last'.ok /\ habits' = habits /\ habit_log' = habit_log

\* C17: no two habits have the same name, in every state; add_habit with a
\* name some habit holds returns 0 and adds no row; update_habit that would
\* give a habit the name another habit holds fails and changes nothing.
C17_NamesUnique ==
    /\ [](\A i, j \in DOMAIN habits : habits[i].name = habits[j].name => i = j)
    /\ [][\A n \in CrudNames, f \in CrudCadences :
            (Held(n) /\ add_habit(n, f)) => (Refused /\ last'.habit_id = 0)]_vars
    /\ [][\A h \in DOMAIN habits, n \in CrudNames :
            (HeldByOther(h, n) /\ update_habit(h, n, None, None)) => Refused]_vars

\* Two habits of different names, and an add_habit that was refused.
C17_Witness ==
    /\ Cardinality(DOMAIN habits) = 2
    /\ last.op = "add_habit"
    /\ ~last.ok
    /\ last.habit_id = 0

\* C18: after delete_habit(h) has succeeded no row of habit_log has habit_id
\* h; every row of habit_log has the id of a habit that exists; and while a
\* habit exists the rows of habit_log with its id are neither changed nor
\* removed.
C18_LogOwnedByHabit ==
    /\ []((last.op = "delete_habit" /\ last.ok)
           => \A k \in DOMAIN habit_log : habit_log[k].habit_id # last.habit_id)
    /\ [](\A k \in DOMAIN habit_log : habit_log[k].habit_id \in DOMAIN habits)
    /\ [][\A k \in DOMAIN habit_log :
            habit_log[k].habit_id \in DOMAIN habits \cap DOMAIN habits'
            => (k \in DOMAIN habit_log' /\ habit_log'[k] = habit_log[k])]_vars

\* The step leaves every table as it was.
StoreUntouched ==
    /\ habits' = habits
    /\ habit_log' = habit_log
    /\ sessions' = sessions
    /\ pending' = pending

\* C15: complete_habit with an id no habit has, and end_focus_session with an
\* id no session has, each return False and leave every table as it was: no
\* row of habit_log, habits or focus_sessions is added or changed.
C15_MissingIdChangesNothing ==
    [][/\ \A h \in HabitIds :
            (h \notin DOMAIN habits /\ complete_habit(h) /\ UNCHANGED outsideHabits)
            => (~last'.ok /\ StoreUntouched)
       /\ \A id \in SessionIds, outcome \in Outcomes :
            (/\ id \notin DOMAIN sessions
             /\ end_focus_session(id, outcome, NULL, "")
             /\ UNCHANGED outsideFocus)
            => (~flast'.ok /\ StoreUntouched)]_vars

\* Both calls were made with ids that do not exist, on tables that have rows.
C15_Witness ==
    /\ last.op = "complete_habit"
    /\ last.habit_id \notin DOMAIN habits
    /\ ~last.ok
    /\ flast.op = "end_focus_session"
    /\ flast.session_id \notin DOMAIN sessions
    /\ ~flast.ok
    /\ habits # <<>>
    /\ sessions # <<>>

\* The columns end_focus_session writes.
EndColumns(row) ==
    <<row.end_time, row.actual_duration, row.outcome, row.energy_after, row.notes>>

\* C19: no step removes a row of focus_sessions, and no step changes
\* end_time, actual_duration, outcome, energy_after or notes of a session
\* that has ended, another end_focus_session on its id included; an ended
\* session stays ended.
C19_EndedOnce ==
    [][\A id \in DOMAIN sessions :
          /\ id \in DOMAIN sessions'
          /\ sessions[id].end_time # NullText
             => EndColumns(sessions'[id]) = EndColumns(sessions[id])]_vars

\* The session get_active_session reported is active and no active session
\* starts after it; it reported none only when none is active.
ReportsLatestActive ==
    flast.op = "get_active_session"
    => IF ActiveRows(sessions) = {}
       THEN flast.session_id = 0 /\ ~flast.ok
       ELSE /\ flast.ok
            /\ flast.session_id \in ActiveRows(sessions)
            /\ \A j \in ActiveRows(sessions) :
                  sessions[j].start_time.iso
                      <= sessions[flast.session_id].start_time.iso

\* C20: a start_focus_session call succeeds whatever sessions are active: it
\* returns an id no row had, and adds under it an active row, the other rows
\* left as they were; get_active_session reports the one active row with the
\* latest start_time.
C20_StartsNeverRejected ==
    /\ []ReportsLatestActive
    /\ [][StartCommit
           => /\ flast'.op = "start_focus_session"
              /\ flast'.ok
              /\ flast'.session_id \notin DOMAIN sessions
              /\ flast'.session_id \in ActiveRows(sessions')
              /\ \A id \in DOMAIN sessions : sessions'[id] = sessions[id]]_vars

\* Two active sessions, the first with the later start_time: it is the one
\* reported.
C20_Witness ==
    /\ ActiveRows(sessions) = {1, 2}
    /\ sessions[1].start_time.iso > sessions[2].start_time.iso
    /\ flast.op = "get_active_session"
    /\ flast.session_id = 1

\* C21: whenever add_habit, complete_habit, update_habit, delete_habit,
\* start_focus_session or end_focus_session reports failure (returns 0 or
\* False), a store error raised by any of its statements or by its commit
\* included, the committed tables are the tables the operation found; and
\* until its commit an operation changes no committed table.
C21_FailureChangesNothing ==
    /\ (frame.pc = "idle" /\ ~frame.ok) => Tables = frame.before
    /\ frame.pc # "idle" => Tables = frame.before

\* complete_habit has failed at its commit, after its INSERT and its UPDATE:
\* the connection it leaves behind holds both, the committed tables neither.
C21_Witness ==
    /\ frame.pc = "idle"
    /\ frame.call.op = "complete_habit"
    /\ ~frame.ok
    /\ conn.open
    /\ Len(conn.habit_log) = Len(habit_log) + 1
    /\ conn.habits # habits
    /\ habit_log # <<>>
    /\ sessions # <<>>

\* C22: a complete_habit call on a habit that is not active (active = 0) is
\* refused: it fails, appends no log row and leaves streak_count and
\* last_completed as they were.
C22_InactiveRefused ==
    \A h \in DOMAIN habits :
        (last.op = "complete_habit" /\ last.habit_id = h /\ last.row.active = 0)
        => /\ ~last.ok
           /\ Len(habit_log) = last.logged
           /\ habits[h].streak_count = last.row.streak_count
           /\ habits[h].last_completed = last.row.last_completed

\* The open interval of the opportunity meets no instant of the event.
Free(opp, e) == opp.start >= opp.end \/ e.end <= opp.start \/ e.start >= opp.end

\* C23: over events sorted by start, each with start < end, overlapping and
\* nested ones included, every opportunity find_focus_opportunities returns
\* is free: its open interval (start, end) meets none of the events.
C23_GapsAreFree ==
    scan.done
    => \A k \in DOMAIN scan.opportunities, i \in DOMAIN scan.events :
          Free(scan.opportunities[k], scan.events[i])

\* The days for which the log holds a row of habit h.
LoggedDays(h) == {d \in 1..TxnMaxDay : Entries(habit_log, h, d) # {}}

\* C24: complete_habit invocations on a daily habit whose statements
\* interleave leave what invocations run one after the other leave: the
\* committed log holds at most one row of the habit for a day, and
\* streak_count has been raised at most once for each day with a row.
C24_InterleavedAsSerial ==
    \A h \in DOMAIN habits :
        habits[h].goal_frequency = "daily"
        => /\ \A d \in 1..TxnMaxDay : Cardinality(Entries(habit_log, h, d)) <= 1
           /\ habits[h].streak_count <= Cardinality(LoggedDays(h))

\* C25: for a habit that is daily now, whatever add_habit, complete_habit and
\* update_habit calls have been made, changes of goal_frequency between
\* completions included, streak_count is the number of consecutive days
\* ending at last_completed on each of which a completion was accepted.
C25_StreakAcrossCadences ==
    \A h \in DOMAIN habits :
        habits[h].goal_frequency = "daily"
        => IF habits[h].last_completed = NULL
           THEN hist[h].accepted = {} /\ habits[h].streak_count = 0
           ELSE habits[h].streak_count
                    = RunLength(hist[h].accepted, habits[h].last_completed)

\* C26: every session that has ended has an end_time not before its
\* start_time, and its actual_duration is the whole minutes from the one to
\* the other, not below zero; for sessions started from any proposal, those
\* that start at a later instant than the call included.
C26_EndsAfterStart ==
    \A id \in DOMAIN sessions :
        sessions[id].end_time # NullText
        => LET elapsed == fromisoformat(sessions[id].end_time)
                            - fromisoformat(sessions[id].start_time)
               minutes == sessions[id].actual_duration
           IN  /\ elapsed >= 0
               /\ minutes >= 0
               /\ minutes * TicksPerMinute <= elapsed
               /\ elapsed < (minutes + 1) * TicksPerMinute

\* C27 as claimed: for every duration d of the opportunity the minutes of the
\* suggested timer are at most d - 15, and above zero whenever d > 15.
C27_TimerLeavesBuffer ==
    Proposed
    => LET d == opportunity.duration
           timer == proposal.suggested_timer
       IN  /\ timer.minutes * TicksPerMinute <= d - 15 * TicksPerMinute
           /\ d > 15 * TicksPerMinute => timer.minutes > 0

\* C27, amended: the minutes of the suggested timer are at most the whole
\* minutes of d less 15, the fraction of d dropped toward zero; so at most
\* d - 15 for every d >= 0, and below d - 14 for a negative d.  They are above
\* zero exactly when d is 16 minutes or more: a proposal for an opportunity of
\* at least min_minutes, min_minutes a whole number above 15, has a timer
\* above zero that ends 15 minutes or more before the opportunity does.
C27_TimerLeavesBufferOfWholeMinutes ==
    Proposed
    => LET d == opportunity.duration
           timer == proposal.suggested_timer
       IN  /\ timer.minutes <= proposal.duration_minutes - 15
           /\ d >= 0 => timer.minutes * TicksPerMinute <= d - 15 * TicksPerMinute
           /\ d < 0 => timer.minutes * TicksPerMinute < d - 14 * TicksPerMinute
           /\ timer.minutes > 0 <=> d >= 16 * TicksPerMinute
           /\ \A min_minutes \in 16..MaxGapMinutes :
                d >= min_minutes * TicksPerMinute
                => /\ timer.minutes > 0
                   /\ timer.minutes * TicksPerMinute <= d - 15 * TicksPerMinute

\* An opportunity one tick short of 16 minutes: 15 whole minutes, a timer of
\* 0 minutes.
C27_Witness ==
    /\ Proposed
    /\ opportunity.duration = 16 * TicksPerMinute - 1
    /\ proposal.duration_minutes = 15
    /\ proposal.suggested_timer.minutes = 0

\* A call has just returned what it read: the result of one of the queries
\* is the live one.
Answered ==
    \/ answer.op # "init"
    \/ reminders # NoReminders
    \/ flast.op # "init"
    \/ scan.done
    \/ proposal # NoProposal

\* C28: the queries list_habits, get_habit_status, get_habit_reminders,
\* get_habit_history, get_active_session, get_session_stats,
\* find_focus_opportunities, propose_focus_session and scan_and_propose leave
\* the stored habits, completions and sessions as they were; the passage of
\* days alone changes no habit, and a habit's streak_count changes only in a
\* successful complete_habit on that habit, which also logs the completion.
C28_QueriesChangeNothing ==
    /\ [][Answered' => /\ habits' = habits
                       /\ habit_log' = habit_log
                       /\ sessions' = sessions
                       /\ pending' = pending]_vars
    /\ [][today' # today => habits' = habits /\ habit_log' = habit_log]_vars
    /\ [][\A h \in DOMAIN habits \cap DOMAIN habits' :
            habits'[h].streak_count # habits[h].streak_count =>
                /\ last'.op = "complete_habit"
                /\ last'.habit_id = h
                /\ last'.ok
                /\ Len(habit_log') = Len(habit_log) + 1
                /\ habit_log'[Len(habit_log')].habit_id = h]_vars

\* get_habit_status reports a habit two days after its last completion, and
\* the stored streak_count is still 1.
C28_Witness ==
    /\ answer.op = "get_habit_status"
    /\ answer.value # <<>>
    /\ answer.value[1].days_since_completion = <<2>>
    /\ answer.value[1].id \in DOMAIN habits
    /\ habits[answer.value[1].id].streak_count = 1

====
